---- MODULE Spec2Model ----
(***************************************************************************)
(* State-machine model of src/src/App.tsx (the video pixelator): the React *)
(* component state and refs, the render/commit cycle with its three        *)
(* effects, the requestAnimationFrame render loop, the object-URL handles, *)
(* the still-frame download and the video export sequence.                 *)
(*                                                                         *)
(* A closure created by useCallback is represented by the values it        *)
(* captured (the record built by Closure); an effect runs at a commit      *)
(* exactly when one of its dependencies differs from the previous commit.  *)
(***************************************************************************)
EXTENDS Integers, Sequences, FiniteSets, TLC

(***************************************************************************)
(* Program constants (slider ranges and initial state of App.tsx).         *)
(***************************************************************************)
MinColumns == 16
MaxColumns == 256
MinCell == 4
MaxCell == 24
MinBorder == 0
MaxBorder == 6
InitColumns == 96
InitBorder == 1
InitCell == 10
\* Default size of a freshly mounted <canvas> element.
CanvasDefaultWidth == 300
CanvasDefaultHeight == 150
\* Width of the significand of a JavaScript number (IEEE-754 binary64).
MantissaBits == 53

(***************************************************************************)
(* Bounds of the model.                                                    *)
(***************************************************************************)
\* Object-URL handles that may be created in one behaviour.
MaxHandles == 3
\* Animation-frame request ids that may be pending at once.
MaxRafIds == 2
\* getContext('2d') calls that may fail to yield a context in one behaviour.
MaxFaults == 1
\* distinct frames of a clip that a pass may find on the video element
MaxFrames == 2

(***************************************************************************)
(* Inputs.                                                                 *)
(***************************************************************************)
\* Slider positions the user moves to (each is clamped by the handler).
ColumnInputs == {MinColumns, InitColumns}
CellInputs == {MinCell, InitCell}
BorderInputs == {MinBorder, InitBorder}
\* Natural sizes (videoWidth, videoHeight) of clips that may be uploaded;
\* <<0, 0>> is a file that decodes without a video track.
SourceSizes == {<<0, 0>>, <<640, 448>>}
\* Natural sizes used when the row computation is checked on its own.
RowSources ==
  {<<1920, 1080>>, <<1280, 720>>, <<640, 480>>, <<640, 448>>, <<720, 1280>>,
   <<3000, 2>>}

\* the frames drawImage(video, ...) may sample (App.tsx:88)
Frames == 1..MaxFrames
\* Values the sliders' onValueChange may be called with when the clamping
\* is checked: below, at and above the documented ranges.
SliderColumns == {0, MinColumns, InitColumns, MaxColumns, 300}
SliderCells == {0, MinCell, InitCell, MaxCell, 30}
SliderBorders == {-1, MinBorder, InitBorder, MaxBorder, 7}
\* Natural sizes used when single cells are checked: 16:9 and one row.
CellSources == {<<1920, 1080>>, <<3000, 2>>}
\* Column counts used when single cells are checked.
CellColumns == {MinColumns, MinColumns + 1}

DownloadModes == {"png", "jpg", "webp", "svg", "json"}
\* Download modes the user selects: one raster format stands for the three,
\* which share one branch of handleDownload.
ModeInputs == {"png", "svg", "json"}
VideoFormats == {"webm", "mp4"}
\* What MediaRecorder.isTypeSupported answered when supportedVideoMimes was
\* computed: a runtime that records webm and not mp4.
Runtimes == {[f \in VideoFormats |-> f = "webm"]}

Max(a, b) == IF a >= b THEN a ELSE b
Min(a, b) == IF a <= b THEN a ELSE b

\* clamp (App.tsx:23)
clamp(value, min, max) == Min(Max(value, min), max)

(***************************************************************************)
(* JavaScript number arithmetic, as far as targetHeight needs it:          *)
(* (sourceHeight / sourceWidth) * targetWidth is a correctly rounded       *)
(* binary64 division followed by a correctly rounded binary64              *)
(* multiplication, and Math.round rounds the resulting double to the       *)
(* nearest integer, ties upwards.  A double is [m, e]: the MantissaBits    *)
(* bits of the significand, most significant first, and the exponent of    *)
(* the first bit.                                                          *)
(***************************************************************************)
RECURSIVE Normalize(_, _, _)
\* <<h', w', e>> with w' <= h' < 2w' and h/w = (h'/w') * 2^e
Normalize(h, w, e) ==
  IF h < w THEN Normalize(2 * h, w, e - 1)
  ELSE IF h >= 2 * w THEN Normalize(h, 2 * w, e + 1)
  ELSE <<h, w, e>>

RECURSIVE QuotBits(_, _, _, _)
\* n bits of the quotient r/w (long division), and the doubled remainder
QuotBits(r, w, n, acc) ==
  IF n = 0 THEN <<acc, r>>
  ELSE LET b == IF r >= w THEN 1 ELSE 0
       IN QuotBits(2 * (r - b * w), w, n - 1, Append(acc, b))

RECURSIVE IncBits(_)
IncBits(bits) ==
  IF bits = <<>> THEN <<1>>
  ELSE LET n == Len(bits)
       IN IF bits[n] = 0 THEN SubSeq(bits, 1, n - 1) \o <<1>>
          ELSE IncBits(SubSeq(bits, 1, n - 1)) \o <<0>>

AnyOne(bits) == \E i \in 1..Len(bits) : bits[i] = 1

\* round to nearest, ties to even, to MantissaBits bits
RoundHalfEven(bits, e, sticky) ==
  LET keep  == SubSeq(bits, 1, MantissaBits)
      guard == IF Len(bits) > MantissaBits THEN bits[MantissaBits + 1] ELSE 0
      rest  == sticky \/ AnyOne(SubSeq(bits, MantissaBits + 2, Len(bits)))
      up    == guard = 1 /\ (rest \/ keep[MantissaBits] = 1)
      inc   == IncBits(keep)
  IN IF ~up THEN [m |-> keep, e |-> e]
     ELSE IF Len(inc) > MantissaBits
          THEN [m |-> SubSeq(inc, 1, MantissaBits), e |-> e + 1]
          ELSE [m |-> inc, e |-> e]

\* h / w for positive integers h, w
FloatDiv(h, w) ==
  LET nz == Normalize(h, w, 0)
      q  == QuotBits(nz[1], nz[2], MantissaBits + 1, <<>>)
  IN RoundHalfEven(q[1], nz[3], q[2] # 0)

RECURSIVE Reverse(_)
Reverse(s) == IF s = <<>> THEN <<>> ELSE Reverse(Tail(s)) \o <<Head(s)>>

RECURSIVE MulLSB(_, _, _)
\* bits (least significant first) times the integer c
MulLSB(bits, c, carry) ==
  IF bits = <<>>
  THEN IF carry = 0 THEN <<>>
       ELSE <<carry % 2>> \o MulLSB(<<>>, c, carry \div 2)
  ELSE LET t == Head(bits) * c + carry
       IN <<t % 2>> \o MulLSB(Tail(bits), c, t \div 2)

\* x * c for a double x and a positive integer c
FloatMulInt(x, c) ==
  LET p == Reverse(MulLSB(Reverse(x.m), c, 0))
  IN RoundHalfEven(p, x.e + (Len(p) - MantissaBits), FALSE)

RECURSIVE BitsToInt(_, _)
BitsToInt(bits, acc) ==
  IF bits = <<>> THEN acc ELSE BitsToInt(Tail(bits), 2 * acc + Head(bits))

\* Math.round of a positive double below 2^MantissaBits
MathRound(x) ==
  IF x.e < -1 THEN 0
  ELSE IF x.e = -1 THEN 1
  ELSE BitsToInt(SubSeq(x.m, 1, x.e + 1), 0)
       + (IF x.e + 2 <= MantissaBits THEN x.m[x.e + 2] ELSE 0)

\* the function the targetHeight memo computes (App.tsx:46-47)
computeTargetHeight(sw, sh, tw) ==
  IF sw = 0 \/ sh = 0 THEN 0
  ELSE Max(1, MathRound(FloatMulInt(FloatDiv(sh, sw), tw)))

\* The memo's values for the sources and columns of the model, computed
\* once.
TargetHeights ==
  [s \in SourceSizes \cup RowSources |->
     [tw \in MinColumns..MaxColumns |-> computeTargetHeight(s[1], s[2], tw)]]

\* targetHeight (App.tsx:45-48)
targetHeight(sw, sh, tw) == TargetHeights[<<sw, sh>>][tw]

(***************************************************************************)
(* State.                                                                  *)
(***************************************************************************)
VARIABLES
  mounted,             \* the component is mounted (videoRef.current is set)
  videoUrl,            \* useState videoUrl: 0 is null, else a handle
  isReady,             \* useState isReady
  sourceWidth,         \* useState sourceWidth
  sourceHeight,        \* useState sourceHeight
  targetWidth,         \* useState targetWidth (columns)
  borderSize,          \* useState borderSize
  cellSize,            \* useState cellSize
  downloadMode,        \* useState downloadMode
  videoFormat,         \* useState videoFormat
  supportedVideoMimes, \* useMemo: format -> whether a mime type was picked
  isExporting,         \* useState isExporting
  exportError,         \* useState exportError: "none" is null
  canvas,              \* canvasRef.current: NoCanvas, or the output canvas
  pixelData,           \* pixelDataRef.current: NoPixels, or [width, height]
  animationRef,        \* animationRef.current: 0 is null, else a request id
  playHandler,         \* the drawPixelFrame closure the registered 'play'
                       \* listener reaches through startLoop, or NoHandler
  rafQueue,            \* pending requestAnimationFrame callbacks
  playing,             \* the video element is not paused
  metaPending,         \* a src was set and 'loadedmetadata' has not fired
  handles,             \* object URLs: handles[h] counts revocations of h
  exPc,                \* where the running handleVideoExport call waits
  stream,              \* capture stream of the last export
  recorder,            \* MediaRecorder of the last export
  endedListener,       \* the export's handleEnded is registered
  endedSeen,           \* endedPromise is resolved
  exLog,               \* steps the last export has performed, in order
  faults,              \* getContext('2d') calls that yielded null so far
  lastOp,              \* history: the operation that ran last
  lastPasses,          \* history: passes behind the guard of App.tsx:71
                       \* that the last operation's dependency effect made
  lastPainted,         \* history: the last operation painted the raster
  lastFile             \* history: the file the last operation produced

vars ==
  <<mounted, videoUrl, isReady, sourceWidth, sourceHeight, targetWidth,
    borderSize, cellSize, downloadMode, videoFormat, supportedVideoMimes,
    isExporting, exportError, canvas, pixelData, animationRef, playHandler,
    rafQueue, playing, metaPending, handles, exPc, stream, recorder,
    endedListener, endedSeen, exLog, faults, lastOp, lastPasses, lastPainted,
    lastFile>>

reactState ==
  <<videoUrl, isReady, sourceWidth, sourceHeight, targetWidth, borderSize,
    cellSize>>
exportVars ==
  <<isExporting, exportError, exPc, stream, recorder, endedListener,
    endedSeen, exLog>>
loopVars == <<animationRef, rafQueue>>

NoCanvas == [present |-> FALSE]
NoPixels == [present |-> FALSE]
NoHandler == [registered |-> FALSE]
NoFile == [kind |-> "none"]

\* A <canvas> element as React mounts it: default size, nothing painted.
FreshCanvas ==
  [present |-> TRUE, width |-> CanvasDefaultWidth,
   height |-> CanvasDefaultHeight, painted |-> FALSE,
   cols |-> 0, rows |-> 0, cell |-> 0, border |-> 0, frame |-> 0]

\* The values a drawPixelFrame closure captures (its useCallback
\* dependencies, App.tsx:119); targetHeight is the memo of App.tsx:45-48.
Closure(ready, sw, sh, tw, cs, bs) ==
  [ready |-> ready, tw |-> tw, th |-> targetHeight(sw, sh, tw),
   cell |-> cs, border |-> bs]

\* the drawPixelFrame of the committed render
CurrentClosure ==
  Closure(isReady, sourceWidth, sourceHeight, targetWidth, cellSize,
          borderSize)

(***************************************************************************)
(* Pixels and cells.  The model keeps which frame a buffer was sampled     *)
(* from; the bytes and the rectangles are functions of it.                 *)
(***************************************************************************)
\* Channel c of the pixel that drawImage+getImageData give for cell (x, y)
\* of a frame (App.tsx:88-89): the clip's content, which varies with the
\* frame, the position and the channel.
Sample(frame, x, y, c) == (frame * 101 + y * 57 + x * 4 + c) % 256

\* ImageData.data[i] of a buffer: RGBA bytes in row-major order
ImageDataAt(pd, i) ==
  LET p == i \div 4
  IN Sample(pd.frame, p % pd.width, p \div pd.width, i % 4)

\* pixelData.data.length
ImageDataLength(pd) == pd.width * pd.height * 4

\* a cell loop that leaves out the border before the first cell
CellFillRectNoLead(pd, cs, bs, x, y) ==
  LET index == (y * pd.width + x) * 4
  IN [x |-> x * (cs + bs), y |-> y * (cs + bs),
      width |-> cs, height |-> cs,
      r |-> ImageDataAt(pd, index), g |-> ImageDataAt(pd, index + 1),
      b |-> ImageDataAt(pd, index + 2), alpha |-> ImageDataAt(pd, index + 3)]

\* The fillRect of cell (x, y) in the loop of App.tsx:105-118, for a raster
\* painted from buffer pd with cell size cs and border bs.  alpha is the
\* byte that the code divides by 255.
CellFillRect(pd, cs, bs, x, y) ==
  LET index == (y * pd.width + x) * 4
  IN [x |-> bs + x * (cs + bs), y |-> bs + y * (cs + bs),
      width |-> cs, height |-> cs,
      r |-> ImageDataAt(pd, index), g |-> ImageDataAt(pd, index + 1),
      b |-> ImageDataAt(pd, index + 2), alpha |-> ImageDataAt(pd, index + 3)]

\* the buffer a painted raster was painted from
PaintedFrom(cv) ==
  [present |-> TRUE, width |-> cv.cols, height |-> cv.rows,
   frame |-> cv.frame]

\* the rectangle the raster holds for cell (x, y)
RasterRect(cv, x, y) == CellFillRect(PaintedFrom(cv), cv.cell, cv.border, x, y)

\* the fillRect that paints the background (App.tsx:101-102)
BackgroundRect(cv) ==
  [x |-> 0, y |-> 0, width |-> cv.width, height |-> cv.height,
   fill |-> "#ffffff"]

\* whether the rectangle r covers the pixel (px, py)
Covers(r, px, py) ==
  /\ r.x <= px /\ px < r.x + r.width
  /\ r.y <= py /\ py < r.y + r.height

\* What a painted raster shows at pixel (px, py): the cell painted over it
\* last, else the background, else nothing (App.tsx:101-118).
RasterPixel(cv, px, py) ==
  LET over == {c \in (0..(cv.cols - 1)) \X (0..(cv.rows - 1)) :
                 Covers(RasterRect(cv, c[1], c[2]), px, py)}
  IN IF over # {} THEN "cell"
     ELSE IF Covers(BackgroundRect(cv), px, py) THEN BackgroundRect(cv).fill
     ELSE "none"

\* The <rect> that the svg branch of handleDownload pushes for cell (x, y)
\* (App.tsx:228-240), for a file written from buffer [cols, rows, frame].
SvgRect(file, x, y) ==
  LET pd    == [width |-> file.cols, height |-> file.rows,
                frame |-> file.frame]
      index == (y * pd.width + x) * 4
  IN [x |-> file.border + x * (file.cell + file.border),
      y |-> file.border + y * (file.cell + file.border),
      width |-> file.cell, height |-> file.cell,
      r |-> ImageDataAt(pd, index), g |-> ImageDataAt(pd, index + 1),
      b |-> ImageDataAt(pd, index + 2), alpha |-> ImageDataAt(pd, index + 3)]

\* a colors array that leaves the alpha bytes out
PayloadColorsNoAlpha(file) ==
  LET pd == [width |-> file.gridWidth, height |-> file.gridHeight,
             frame |-> file.frame]
  IN [i \in 1..(pd.width * pd.height * 3) |->
        ImageDataAt(pd, ((i - 1) \div 3) * 4 + ((i - 1) % 3))]

\* The colors array that the json branch of handleDownload writes
\* (App.tsx:247-251): a copy of pixelData.data, here indexed from 1.
PayloadColors(file) ==
  LET pd == [width |-> file.gridWidth, height |-> file.gridHeight,
             frame |-> file.frame]
  IN [i \in 1..ImageDataLength(pd) |-> ImageDataAt(pd, i - 1)]

\* an output size that counts only the borders between cells
OutputSizeInnerBorders(n, cs, bs) == n * cs + (n - 1) * bs

\* outputWidth / outputHeight (App.tsx:92-93)
OutputSize(n, cs, bs) == n * cs + (n + 1) * bs

(***************************************************************************)
(* drawPixelFrame (App.tsx:68-119) run with closure cfg: the new values of *)
(* canvasRef.current and pixelDataRef.current.  video is whether           *)
(* videoRef.current is set, cv and px the refs' values, frame the frame    *)
(* the video element shows, small2d and out2d whether getContext('2d')     *)
(* yields a context.  passes is 1 when the call gets behind the guard of   *)
(* line 71.                                                                *)
(***************************************************************************)
drawPixelFrame(cfg, video, cv, px, frame, small2d, out2d) ==
  IF ~video \/ ~cv.present \/ ~cfg.ready
  THEN [canvas |-> cv, pix |-> px, passes |-> 0, painted |-> FALSE,
        faulted |-> FALSE]
  ELSE
    LET width  == Max(1, cfg.tw)
        height == Max(1, cfg.th)
        pd     == [present |-> TRUE, width |-> width, height |-> height,
                   frame |-> frame]
        ow     == OutputSize(width, cfg.cell, cfg.border)
        oh     == OutputSize(height, cfg.cell, cfg.border)
    IN IF ~small2d
       THEN [canvas |-> cv, pix |-> px, passes |-> 1, painted |-> FALSE,
             faulted |-> TRUE]
       ELSE IF ~out2d
       THEN \* assigning width/height has cleared the canvas
            [canvas |-> [cv EXCEPT !.width = ow, !.height = oh,
                                   !.painted = FALSE],
             pix |-> pd, passes |-> 1, painted |-> FALSE, faulted |-> TRUE]
       ELSE [canvas |-> [present |-> TRUE, width |-> ow, height |-> oh,
                         painted |-> TRUE, cols |-> width, rows |-> height,
                         cell |-> cfg.cell, border |-> cfg.border,
                         frame |-> frame],
             pix |-> pd, passes |-> 1, painted |-> TRUE, faulted |-> FALSE]

\* What a getContext('2d') call may yield: a context (TRUE), or null while
\* the behaviour's faults are not used up.
ContextOutcomes == IF faults < MaxFaults THEN BOOLEAN ELSE {TRUE}

(***************************************************************************)
(* The render loop (App.tsx:121-135).  A pending callback is [id, cfg]:    *)
(* the request id and the drawPixelFrame closure its loop function calls.  *)
(***************************************************************************)
FreeIds(queue) == {i \in 1..MaxRafIds : \A cb \in queue : cb.id # i}
\* requestAnimationFrame returns an id no pending request has
FreshId(queue) == CHOOSE i \in FreeIds(queue) : \A j \in FreeIds(queue) : i <= j

\* stopLoop that forgets the request: the ref is cleared, nothing cancelled
stopLoopNoCancel(ref, queue) == [ref |-> 0, queue |-> queue]

\* stopLoop (App.tsx:121-126)
stopLoop(ref, queue) ==
  IF ref # 0
  THEN [ref |-> 0, queue |-> {cb \in queue : cb.id # ref}]
  ELSE [ref |-> ref, queue |-> queue]

\* startLoop without its early return
startLoopNoGuard(cfg, ref, queue) ==
  [ref |-> FreshId(queue),
   queue |-> queue \cup {[id |-> FreshId(queue), cfg |-> cfg]}]

\* startLoop (App.tsx:128-135), created with the closure cfg
startLoop(cfg, ref, queue) ==
  IF ref # 0
  THEN [ref |-> ref, queue |-> queue]
  ELSE [ref |-> FreshId(queue),
        queue |-> queue \cup {[id |-> FreshId(queue), cfg |-> cfg]}]

\* handlePlay of the registered listener (App.tsx:141)
handlePlay(handler, ref, queue) ==
  IF handler.registered
  THEN startLoop(handler.cfg, ref, queue)
  ELSE [ref |-> ref, queue |-> queue]

\* handlePause of the registered listener (App.tsx:142), for 'pause'/'ended'
handlePause(handler, ref, queue) ==
  IF handler.registered
  THEN stopLoop(ref, queue)
  ELSE [ref |-> ref, queue |-> queue]

(***************************************************************************)
(* Object URLs.                                                            *)
(***************************************************************************)
\* URL.createObjectURL: a new handle, not yet revoked
CreateObjectURL(hs) == Append(hs, 0)
\* URL.revokeObjectURL(h)
RevokeObjectURL(hs, h) == [hs EXCEPT ![h] = @ + 1]

(***************************************************************************)
(* The effects of a commit.                                                *)
(***************************************************************************)
\* The listener effect (App.tsx:137-153) re-runs when startLoop, hence
\* drawPixelFrame, is a new closure; its cleanup removes the listeners and
\* leaves a running loop alone.
ListenerEffect(handler, old, new) ==
  IF new # old THEN [registered |-> TRUE, cfg |-> new] ELSE handler

\* a redraw effect whose dependency list names only isReady and targetWidth
RedrawEffectRunsFewDeps(old, new, ready, ready2, tw, tw2, cs, cs2, bs, bs2) ==
  <<ready2, tw2>> # <<ready, tw>>

\* a redraw effect whose dependency list leaves out isReady and the closure
RedrawEffectRunsNoReady(old, new, ready, ready2, tw, tw2, cs, cs2, bs, bs2) ==
  <<bs2, cs2, tw2>> # <<bs, cs, tw>>

\* Whether the redraw effect (App.tsx:155-159) runs: a dependency changed.
RedrawEffectRuns(old, new, ready, ready2, tw, tw2, cs, cs2, bs, bs2) ==
  <<bs2, cs2, new, ready2, tw2>> # <<bs, cs, old, ready, tw>>

\* The cleanup of the URL effect (App.tsx:161-167), run when videoUrl
\* changed: it revokes the url of the render that created it.
UrlEffectCleanup(hs, url, url2) ==
  IF url2 # url /\ url # 0 THEN RevokeObjectURL(hs, url) ELSE hs

(***************************************************************************)
(* The commit of a render with new state (url2, ..., bs2): React attaches  *)
(* or detaches the canvas (it is rendered only while isReady,              *)
(* App.tsx:476-482), then runs the effects whose dependencies changed.     *)
(* hs, cv and px are the handles and the refs as the handler left them,    *)
(* frame is the frame the video element shows.                             *)
(***************************************************************************)
Commit(url2, ready2, sw2, sh2, tw2, cs2, bs2, hs, cv, px, frame, small2d, out2d) ==
  LET old == CurrentClosure
      new == Closure(ready2, sw2, sh2, tw2, cs2, bs2)
      cvm == IF ~ready2 THEN NoCanvas
             ELSE IF cv.present THEN cv ELSE FreshCanvas
      runs == RedrawEffectRuns(old, new, isReady, ready2, targetWidth, tw2,
                               cellSize, cs2, borderSize, bs2)
      d   == IF runs /\ ready2
             THEN drawPixelFrame(new, mounted, cvm, px, frame, small2d, out2d)
             ELSE [canvas |-> cvm, pix |-> px, passes |-> 0,
                   painted |-> FALSE, faulted |-> FALSE]
  IN /\ videoUrl' = url2
     /\ isReady' = ready2
     /\ sourceWidth' = sw2
     /\ sourceHeight' = sh2
     /\ targetWidth' = tw2
     /\ cellSize' = cs2
     /\ borderSize' = bs2
     /\ canvas' = d.canvas
     /\ pixelData' = d.pix
     /\ playHandler' = ListenerEffect(playHandler, old, new)
     /\ handles' = UrlEffectCleanup(hs, videoUrl, url2)
     /\ faults' = faults + (IF d.faulted THEN 1 ELSE 0)
     /\ lastPasses' = d.passes
     /\ lastPainted' = d.painted
     /\ lastFile' = NoFile

(***************************************************************************)
(* Grid Configuration: the sliders' onValueChange (App.tsx:367, 381, 395). *)
(* A value equal to the state is no state change and no render.            *)
(***************************************************************************)
SetTargetWidth(v) ==
  LET tw2 == clamp(v, MinColumns, MaxColumns)
  IN /\ mounted
     /\ tw2 # targetWidth
     /\ \E frame \in Frames : \E small2d, out2d \in ContextOutcomes :
          Commit(videoUrl, isReady, sourceWidth, sourceHeight, tw2, cellSize,
                 borderSize, handles, canvas, pixelData, frame, small2d,
                 out2d)
     /\ lastOp' = "config"
     /\ UNCHANGED <<mounted, downloadMode, videoFormat, supportedVideoMimes,
                    playing, metaPending, loopVars, exportVars>>

SetCellSize(v) ==
  LET cs2 == clamp(v, MinCell, MaxCell)
  IN /\ mounted
     /\ cs2 # cellSize
     /\ \E frame \in Frames : \E small2d, out2d \in ContextOutcomes :
          Commit(videoUrl, isReady, sourceWidth, sourceHeight, targetWidth,
                 cs2, borderSize, handles, canvas, pixelData, frame, small2d,
                 out2d)
     /\ lastOp' = "config"
     /\ UNCHANGED <<mounted, downloadMode, videoFormat, supportedVideoMimes,
                    playing, metaPending, loopVars, exportVars>>

\* the border slider's handler without the clamp
SetBorderSizeNoClamp(v) ==
  /\ mounted
  /\ v # borderSize
  /\ \E frame \in Frames : \E small2d, out2d \in ContextOutcomes :
       Commit(videoUrl, isReady, sourceWidth, sourceHeight, targetWidth,
              cellSize, v, handles, canvas, pixelData, frame, small2d, out2d)
  /\ lastOp' = "config"
  /\ UNCHANGED <<mounted, downloadMode, videoFormat, supportedVideoMimes,
                 playing, metaPending, loopVars, exportVars>>

SetBorderSize(v) ==
  LET bs2 == clamp(v, MinBorder, MaxBorder)
  IN /\ mounted
     /\ bs2 # borderSize
     /\ \E frame \in Frames : \E small2d, out2d \in ContextOutcomes :
          Commit(videoUrl, isReady, sourceWidth, sourceHeight, targetWidth,
                 cellSize, bs2, handles, canvas, pixelData, frame, small2d,
                 out2d)
     /\ lastOp' = "config"
     /\ UNCHANGED <<mounted, downloadMode, videoFormat, supportedVideoMimes,
                    playing, metaPending, loopVars, exportVars>>

(***************************************************************************)
(* Clip selection and metadata.                                            *)
(***************************************************************************)
\* handleFileChange (App.tsx:169-178) with a file selected, and the commit
\* that follows.  The video element gets the new src: it stops playing
\* without a 'pause' event and loads the new resource.
handleFileChange ==
  /\ mounted
  /\ Len(handles) < MaxHandles
  /\ LET hs1 == IF videoUrl # 0 THEN RevokeObjectURL(handles, videoUrl)
                ELSE handles
         hs2 == CreateObjectURL(hs1)
     IN \E frame \in Frames : \E small2d, out2d \in ContextOutcomes :
          Commit(Len(hs2), FALSE, sourceWidth, sourceHeight, targetWidth,
                 cellSize, borderSize, hs2, canvas, pixelData, frame,
                 small2d, out2d)
  /\ playing' = FALSE
  /\ metaPending' = TRUE
  /\ lastOp' = "file"
  /\ UNCHANGED <<mounted, downloadMode, videoFormat, supportedVideoMimes,
                 loopVars, exportVars>>

\* handleVideoLoaded (App.tsx:180-187) on 'loadedmetadata', and the commit
\* that follows: the drawPixelFrame it calls is the one of the render
\* before the state changes.
handleVideoLoaded(size) ==
  /\ mounted
  /\ metaPending
  /\ \E frame \in Frames : \E small2d, out2d \in ContextOutcomes :
       LET d == drawPixelFrame(CurrentClosure, mounted, canvas, pixelData,
                               frame, small2d, out2d)
       IN Commit(videoUrl, TRUE, size[1], size[2], targetWidth, cellSize,
                 borderSize, handles, d.canvas, d.pix, frame, small2d, out2d)
  /\ metaPending' = FALSE
  /\ lastOp' = "loaded"
  /\ UNCHANGED <<mounted, downloadMode, videoFormat, supportedVideoMimes,
                 playing, loopVars, exportVars>>

(***************************************************************************)
(* The video element's events, as the listeners of App.tsx:144-146 see     *)
(* them, and the animation frames.                                         *)
(***************************************************************************)
\* The clip starts playing (the element's controls): 'play'.
VideoPlay ==
  /\ mounted /\ videoUrl # 0 /\ ~metaPending /\ ~playing
  /\ animationRef # 0 \/ FreeIds(rafQueue) # {}
  /\ playing' = TRUE
  /\ LET l == handlePlay(playHandler, animationRef, rafQueue)
     IN animationRef' = l.ref /\ rafQueue' = l.queue
  /\ lastOp' = "play"
  /\ lastPasses' = 0 /\ lastPainted' = FALSE /\ lastFile' = NoFile
  /\ UNCHANGED faults
  /\ UNCHANGED <<mounted, reactState, downloadMode, videoFormat,
                 supportedVideoMimes, canvas, pixelData, playHandler,
                 metaPending, handles, exportVars>>

\* The clip is paused (the element's controls): 'pause'.
VideoPause ==
  /\ mounted /\ playing
  /\ playing' = FALSE
  /\ LET l == handlePause(playHandler, animationRef, rafQueue)
     IN animationRef' = l.ref /\ rafQueue' = l.queue
  /\ lastOp' = "pause"
  /\ lastPasses' = 0 /\ lastPainted' = FALSE /\ lastFile' = NoFile
  /\ UNCHANGED faults
  /\ UNCHANGED <<mounted, reactState, downloadMode, videoFormat,
                 supportedVideoMimes, canvas, pixelData, playHandler,
                 metaPending, handles, exportVars>>

\* The clip reaches its end: 'ended', seen by the component's listener and
\* by the handleEnded of a running export (App.tsx:293-297).
VideoEnded ==
  /\ mounted /\ playing
  /\ playing' = FALSE
  /\ LET l == handlePause(playHandler, animationRef, rafQueue)
     IN animationRef' = l.ref /\ rafQueue' = l.queue
  /\ IF endedListener
     THEN /\ endedListener' = FALSE
          /\ endedSeen' = TRUE
          /\ exLog' = Append(exLog, "ended")
     ELSE UNCHANGED <<endedListener, endedSeen, exLog>>
  /\ lastOp' = "ended"
  /\ lastPasses' = 0 /\ lastPainted' = FALSE /\ lastFile' = NoFile
  /\ UNCHANGED faults
  /\ UNCHANGED <<mounted, reactState, downloadMode, videoFormat,
                 supportedVideoMimes, canvas, pixelData, playHandler,
                 metaPending, handles, isExporting, exportError, exPc,
                 stream, recorder>>

\* A pending animation-frame callback runs: loop (App.tsx:130-133).
Frame ==
  \E cb \in rafQueue :
    \E frame \in Frames : \E small2d, out2d \in ContextOutcomes :
      LET d    == drawPixelFrame(cb.cfg, mounted, canvas, pixelData,
                                 frame, small2d, out2d)
          rest == rafQueue \ {cb}
          id   == FreshId(rest)
      IN /\ canvas' = d.canvas
         /\ pixelData' = d.pix
         /\ rafQueue' = rest \cup {[id |-> id, cfg |-> cb.cfg]}
         /\ animationRef' = id
         /\ lastOp' = "frame"
         /\ faults' = faults + (IF d.faulted THEN 1 ELSE 0)
         /\ lastPasses' = d.passes
         /\ lastPainted' = d.painted
         /\ lastFile' = NoFile
         /\ UNCHANGED <<mounted, reactState, downloadMode, videoFormat,
                        supportedVideoMimes, playHandler, playing,
                        metaPending, handles, exportVars>>

\* The component is unmounted: the effects' cleanups run (App.tsx:148-152
\* and 162-166) and React clears the element refs.
Teardown ==
  /\ mounted
  /\ mounted' = FALSE
  /\ playHandler' = NoHandler
  /\ handles' = UrlEffectCleanup(handles, videoUrl, 0)
  /\ canvas' = NoCanvas
  /\ playing' = FALSE
  /\ metaPending' = FALSE
  /\ lastOp' = "teardown"
  /\ lastPasses' = 0 /\ lastPainted' = FALSE /\ lastFile' = NoFile
  /\ UNCHANGED faults
  /\ UNCHANGED <<reactState, downloadMode, videoFormat, supportedVideoMimes,
                 pixelData, loopVars, exportVars>>

(***************************************************************************)
(* Still-frame download (App.tsx:189-260).                                 *)
(***************************************************************************)

\* downloadBlob (App.tsx:189-196): the handle is created and revoked
downloadBlob(hs) ==
  LET hs1 == CreateObjectURL(hs) IN RevokeObjectURL(hs1, Len(hs1))

\* svgWidth / svgHeight (App.tsx:221-222)
SvgSize(n, cs, bs) == n * cs + (n + 1) * bs

\* the select's onChange (App.tsx:405)
SetDownloadMode(m) ==
  /\ mounted /\ m # downloadMode
  /\ downloadMode' = m
  /\ lastOp' = "mode"
  /\ lastPasses' = 0 /\ lastPainted' = FALSE /\ lastFile' = NoFile
  /\ UNCHANGED faults
  /\ UNCHANGED <<mounted, reactState, videoFormat, supportedVideoMimes,
                 canvas, pixelData, playHandler, playing, metaPending,
                 handles, loopVars, exportVars>>

\* handleDownload (App.tsx:198-260)
handleDownload ==
  /\ mounted
  /\ IF ~canvas.present \/ ~pixelData.present
     THEN lastFile' = NoFile /\ UNCHANGED handles
     ELSE IF downloadMode \in {"png", "jpg", "webp"}
     THEN /\ lastFile' = [kind |-> downloadMode, width |-> canvas.width,
                          height |-> canvas.height]
          /\ UNCHANGED handles
     ELSE /\ Len(handles) < MaxHandles
          /\ handles' = downloadBlob(handles)
          /\ IF downloadMode = "svg"
             THEN lastFile' =
                    [kind |-> "svg",
                     width |-> SvgSize(pixelData.width, cellSize, borderSize),
                     height |-> SvgSize(pixelData.height, cellSize,
                                        borderSize),
                     cols |-> pixelData.width, rows |-> pixelData.height,
                     cell |-> cellSize, border |-> borderSize,
                     frame |-> pixelData.frame]
             ELSE lastFile' =
                    [kind |-> "json",
                     sourceWidth |-> sourceWidth,
                     sourceHeight |-> sourceHeight,
                     gridWidth |-> pixelData.width,
                     gridHeight |-> pixelData.height,
                     cell |-> cellSize, border |-> borderSize,
                     frame |-> pixelData.frame]
  /\ lastOp' = "download"
  /\ lastPasses' = 0 /\ lastPainted' = FALSE
  /\ UNCHANGED faults
  /\ UNCHANGED <<mounted, reactState, downloadMode, videoFormat,
                 supportedVideoMimes, canvas, pixelData, playHandler,
                 playing, metaPending, loopVars, exportVars>>

(***************************************************************************)
(* Video export (App.tsx:262-315).  handleVideoExport runs up to its first *)
(* await in one step and continues when the awaited promise settles.  The  *)
(* action models a call of the handler; the handler's own guards, not the  *)
(* button's disabled attribute (App.tsx:450), decide what it does.  fault  *)
(* and outcome say which platform call, if any, raises.                    *)
(***************************************************************************)
ExportState ==
  [isExporting |-> isExporting, exportError |-> exportError, exPc |-> exPc,
   stream |-> stream, recorder |-> recorder,
   endedListener |-> endedListener, endedSeen |-> endedSeen,
   exLog |-> exLog]

\* catch, then finally (App.tsx:308-314).  The handleEnded of a failed run
\* stays attached to the element but resolves a promise nobody awaits.
ExportCaught(x) ==
  [x EXCEPT !.exportError = "failed", !.stream = "stopped",
            !.isExporting = FALSE, !.exPc = "idle",
            !.endedListener = FALSE]

\* finally after the try block completed (App.tsx:311-314)
ExportFinally(x) ==
  [x EXCEPT !.stream = "stopped", !.isExporting = FALSE, !.exPc = "idle"]

\* handleVideoExport without the check of the mime type
ExportRequestNoMimeCheck(x, fault) ==
  IF ~mounted \/ ~canvas.present \/ ~isReady \/ x.isExporting THEN x
  ELSE
    LET a == [x EXCEPT !.exportError = "none", !.isExporting = TRUE,
                       !.stream = "none", !.recorder = "none",
                       !.endedListener = FALSE, !.endedSeen = FALSE,
                       !.exLog = <<>>]
        b == [a EXCEPT !.stream = "live", !.recorder = "inactive",
                       !.endedListener = TRUE]
    IN IF fault = "captureStream" THEN a
       ELSE IF fault = "recorder" THEN [a EXCEPT !.stream = "live"]
       ELSE IF fault = "seek" THEN ExportCaught(b)
       ELSE [b EXCEPT !.exLog = <<"rewind">>, !.exPc = "awaitPlay"]

\* handleVideoExport without the in-flight test of its guard
ExportRequestNoInFlightGuard(x, fault) ==
  IF ~mounted \/ ~canvas.present \/ ~isReady THEN x
  ELSE IF ~supportedVideoMimes[videoFormat]
  THEN [x EXCEPT !.exportError = "unsupported"]
  ELSE
    LET a == [x EXCEPT !.exportError = "none", !.isExporting = TRUE,
                       !.stream = "none", !.recorder = "none",
                       !.endedListener = FALSE, !.endedSeen = FALSE,
                       !.exLog = <<>>]
        b == [a EXCEPT !.stream = "live", !.recorder = "inactive",
                       !.endedListener = TRUE]
    IN IF fault = "captureStream" THEN a
       ELSE IF fault = "recorder" THEN [a EXCEPT !.stream = "live"]
       ELSE IF fault = "seek" THEN ExportCaught(b)
       ELSE [b EXCEPT !.exLog = <<"rewind">>, !.exPc = "awaitPlay"]

\* handleVideoExport that never registers the listener for 'ended'
ExportRequestNoListener(x, fault) ==
  IF ~mounted \/ ~canvas.present \/ ~isReady \/ x.isExporting THEN x
  ELSE IF ~supportedVideoMimes[videoFormat]
  THEN [x EXCEPT !.exportError = "unsupported"]
  ELSE
    LET a == [x EXCEPT !.exportError = "none", !.isExporting = TRUE,
                       !.stream = "none", !.recorder = "none",
                       !.endedListener = FALSE, !.endedSeen = FALSE,
                       !.exLog = <<>>]
        b == [a EXCEPT !.stream = "live", !.recorder = "inactive"]
    IN IF fault = "captureStream" THEN a
       ELSE IF fault = "recorder" THEN [a EXCEPT !.stream = "live"]
       ELSE IF fault = "seek" THEN ExportCaught(b)
       ELSE [b EXCEPT !.exLog = <<"rewind">>, !.exPc = "awaitPlay"]

\* handleVideoExport starting the recorder before it calls video.play()
ExportRequestRecordFirst(x, fault) ==
  IF ~mounted \/ ~canvas.present \/ ~isReady \/ x.isExporting THEN x
  ELSE IF ~supportedVideoMimes[videoFormat]
  THEN [x EXCEPT !.exportError = "unsupported"]
  ELSE
    LET a == [x EXCEPT !.exportError = "none", !.isExporting = TRUE,
                       !.stream = "none", !.recorder = "none",
                       !.endedListener = FALSE, !.endedSeen = FALSE,
                       !.exLog = <<>>]
        b == [a EXCEPT !.stream = "live", !.recorder = "inactive",
                       !.endedListener = TRUE]
    IN IF fault = "captureStream" THEN a
       ELSE IF fault = "recorder" THEN [a EXCEPT !.stream = "live"]
       ELSE IF fault = "seek" THEN ExportCaught(b)
       ELSE [b EXCEPT !.exLog = <<"rewind", "record">>,
                      !.recorder = "recording", !.exPc = "awaitPlay"]

\* handleVideoExport from its call to `await video.play()` (App.tsx:262-302)
ExportRequest(x, fault) ==
  IF ~mounted \/ ~canvas.present \/ ~isReady \/ x.isExporting THEN x
  ELSE IF ~supportedVideoMimes[videoFormat]
  THEN [x EXCEPT !.exportError = "unsupported"]
  ELSE
    LET a == [x EXCEPT !.exportError = "none", !.isExporting = TRUE,
                       !.stream = "none", !.recorder = "none",
                       !.endedListener = FALSE, !.endedSeen = FALSE,
                       !.exLog = <<>>]
        b == [a EXCEPT !.stream = "live", !.recorder = "inactive",
                       !.endedListener = TRUE]
    IN IF fault = "captureStream" THEN a
       ELSE IF fault = "recorder" THEN [a EXCEPT !.stream = "live"]
       ELSE IF fault = "seek" THEN ExportCaught(b)
       ELSE [b EXCEPT !.exLog = <<"rewind">>, !.exPc = "awaitPlay"]

\* the continuation after `await video.play()` (App.tsx:302-304)
ExportAfterPlay(x, outcome) ==
  IF outcome = "reject" THEN ExportCaught(x)
  ELSE IF outcome = "startThrows"
  THEN ExportCaught([x EXCEPT !.exLog = Append(@, "play")])
  ELSE [x EXCEPT !.exLog = @ \o <<"play", "record">>,
                 !.recorder = "recording", !.exPc = "awaitEnded"]

\* the continuation after `await endedPromise` (App.tsx:304-306)
ExportAfterEnded(x, outcome) ==
  IF outcome = "stopThrows" THEN ExportCaught(x)
  ELSE [x EXCEPT !.exLog = Append(@, "stop"), !.recorder = "stopped",
                 !.exPc = "awaitStop"]

\* recorder.onstop and the continuation after `await stopPromise`
\* (App.tsx:287-289, 306-307); a raise inside onstop leaves stopPromise
\* unresolved for good
ExportAfterStop(x, outcome) ==
  IF outcome = "assembleThrows" THEN [x EXCEPT !.exPc = "hung"]
  ELSE IF outcome = "downloadThrows"
  THEN ExportCaught([x EXCEPT !.exLog = Append(@, "assemble")])
  ELSE ExportFinally([x EXCEPT !.exLog = @ \o <<"assemble", "download">>])

SetExportState(x) ==
  /\ isExporting' = x.isExporting
  /\ exportError' = x.exportError
  /\ exPc' = x.exPc
  /\ stream' = x.stream
  /\ recorder' = x.recorder
  /\ endedListener' = x.endedListener
  /\ endedSeen' = x.endedSeen
  /\ exLog' = x.exLog

\* the select's onChange (App.tsx:426)
SetVideoFormat(f) ==
  /\ mounted /\ f # videoFormat
  /\ videoFormat' = f
  /\ lastOp' = "format"
  /\ lastPasses' = 0 /\ lastPainted' = FALSE /\ lastFile' = NoFile
  /\ UNCHANGED faults
  /\ UNCHANGED <<mounted, reactState, downloadMode, supportedVideoMimes,
                 canvas, pixelData, playHandler, playing, metaPending,
                 handles, loopVars, exportVars>>

\* handleVideoExport is called.  video.play() on a paused clip starts it,
\* which the 'play' listener sees.
handleVideoExport(fault) ==
  /\ mounted
  /\ animationRef # 0 \/ FreeIds(rafQueue) # {}
  /\ LET x == ExportRequest(ExportState, fault)
         starts == exPc = "idle" /\ x.exPc = "awaitPlay" /\ ~playing
         l == IF starts THEN handlePlay(playHandler, animationRef, rafQueue)
              ELSE [ref |-> animationRef, queue |-> rafQueue]
     IN /\ SetExportState(x)
        /\ playing' = (playing \/ starts)
        /\ animationRef' = l.ref
        /\ rafQueue' = l.queue
  /\ lastOp' = "export"
  /\ lastPasses' = 0 /\ lastPainted' = FALSE /\ lastFile' = NoFile
  /\ UNCHANGED faults
  /\ UNCHANGED <<mounted, reactState, downloadMode, videoFormat,
                 supportedVideoMimes, canvas, pixelData, playHandler,
                 metaPending, handles>>

ExportPlaySettled(outcome) ==
  /\ exPc = "awaitPlay"
  /\ SetExportState(ExportAfterPlay(ExportState, outcome))
  /\ lastOp' = "exportPlay"
  /\ lastPasses' = 0 /\ lastPainted' = FALSE /\ lastFile' = NoFile
  /\ UNCHANGED faults
  /\ UNCHANGED <<mounted, reactState, downloadMode, videoFormat,
                 supportedVideoMimes, canvas, pixelData, playHandler,
                 playing, metaPending, handles, loopVars>>

ExportEndedSeen(outcome) ==
  /\ exPc = "awaitEnded" /\ endedSeen
  /\ SetExportState(ExportAfterEnded(ExportState, outcome))
  /\ lastOp' = "exportEnded"
  /\ lastPasses' = 0 /\ lastPainted' = FALSE /\ lastFile' = NoFile
  /\ UNCHANGED faults
  /\ UNCHANGED <<mounted, reactState, downloadMode, videoFormat,
                 supportedVideoMimes, canvas, pixelData, playHandler,
                 playing, metaPending, handles, loopVars>>

ExportRecorderStopped(outcome) ==
  /\ exPc = "awaitStop"
  /\ LET x == ExportAfterStop(ExportState, outcome)
     IN /\ SetExportState(x)
        /\ IF outcome = "ok"
           THEN /\ Len(handles) < MaxHandles
                /\ handles' = downloadBlob(handles)
                /\ lastFile' = [kind |-> videoFormat]
           ELSE /\ lastFile' = NoFile
                /\ UNCHANGED handles
  /\ lastOp' = "exportStop"
  /\ lastPasses' = 0 /\ lastPainted' = FALSE
  /\ UNCHANGED faults
  /\ UNCHANGED <<mounted, reactState, downloadMode, videoFormat,
                 supportedVideoMimes, canvas, pixelData, playHandler,
                 playing, metaPending, loopVars>>

(***************************************************************************)
(* The specification.  Init is the component after its first commit: the   *)
(* listeners are registered with the closures of the first render and the  *)
(* redraw effect found isReady false.                                      *)
(***************************************************************************)
\* The component after its first commit, with the sliders at tw, cs and bs.
Mounted(tw, cs, bs) ==
  /\ mounted = TRUE
  /\ videoUrl = 0
  /\ isReady = FALSE
  /\ sourceWidth = 0
  /\ sourceHeight = 0
  /\ targetWidth = tw
  /\ borderSize = bs
  /\ cellSize = cs
  /\ downloadMode = "png"
  /\ videoFormat = "webm"
  /\ supportedVideoMimes \in Runtimes
  /\ isExporting = FALSE
  /\ exportError = "none"
  /\ canvas = NoCanvas
  /\ pixelData = NoPixels
  /\ animationRef = 0
  /\ playHandler = [registered |-> TRUE, cfg |-> Closure(FALSE, 0, 0, tw, cs, bs)]
  /\ rafQueue = {}
  /\ playing = FALSE
  /\ metaPending = FALSE
  /\ handles = <<>>
  /\ exPc = "idle"
  /\ stream = "none"
  /\ recorder = "none"
  /\ endedListener = FALSE
  /\ endedSeen = FALSE
  /\ exLog = <<>>
  /\ faults = 0
  /\ lastOp = "init"
  /\ lastPasses = 0
  /\ lastPainted = FALSE
  /\ lastFile = NoFile

\* useState initial values (App.tsx:33-43)
Init == Mounted(InitColumns, InitCell, InitBorder)

Next ==
  \/ \E v \in ColumnInputs : SetTargetWidth(v)
  \/ \E v \in CellInputs : SetCellSize(v)
  \/ \E v \in BorderInputs : SetBorderSize(v)
  \/ handleFileChange
  \/ \E size \in SourceSizes : handleVideoLoaded(size)
  \/ VideoPlay
  \/ VideoPause
  \/ VideoEnded
  \/ Frame
  \/ Teardown
  \/ \E m \in ModeInputs : SetDownloadMode(m)
  \/ handleDownload
  \/ \E f \in VideoFormats : SetVideoFormat(f)
  \/ \E fault \in {"none", "captureStream", "recorder", "seek"} :
       handleVideoExport(fault)
  \/ \E outcome \in {"ok", "reject", "startThrows"} :
       ExportPlaySettled(outcome)
  \/ \E outcome \in {"ok", "stopThrows"} : ExportEndedSeen(outcome)
  \/ \E outcome \in {"ok", "assembleThrows", "downloadThrows"} :
       ExportRecorderStopped(outcome)

Spec == Init /\ [][Next]_vars

(***************************************************************************)
(* Partial specifications: the same actions, grouped by the part of the    *)
(* state they write, so that each part is explored exhaustively.           *)
(*   SpecRender: configuration, clip and playback events, the render loop. *)
(*     A running export reaches the loop only through the 'play' and       *)
(*     'ended' events of the clip, which VideoPlay and VideoEnded are.     *)
(*   SpecUrls:   everything that creates or revokes an object URL outside  *)
(*     the export.                                                         *)
(*   SpecExport: the video export and the clip events it waits for.        *)
(*   SpecGrid:   sampling and drawing of one clip for every column count;  *)
(*     it starts with the sliders where the user may have left them.       *)
(*   SpecExportLive: the exports of one clip whose recorder stops and     *)
(*     whose file is assembled, with the event loop's fairness.            *)
(*   SpecSliders: the sliders called with values inside and outside of     *)
(*     their ranges.                                                       *)
(*   SpecBlocks: the pixels of the raster of one clip for each cell and    *)
(*     border size.                                                        *)
(*   SpecCells:  the cells of the raster and of the still exports of one   *)
(*     clip, loaded, played and reconfigured.                              *)
(***************************************************************************)
NextRender ==
  \/ \E v \in ColumnInputs : SetTargetWidth(v)
  \/ \E v \in CellInputs : SetCellSize(v)
  \/ \E v \in BorderInputs : SetBorderSize(v)
  \/ handleFileChange
  \/ \E size \in SourceSizes : handleVideoLoaded(size)
  \/ VideoPlay
  \/ VideoPause
  \/ VideoEnded
  \/ Frame
  \/ Teardown

SpecRender == Init /\ [][NextRender]_vars

NextUrls ==
  \/ handleFileChange
  \/ \E size \in SourceSizes : handleVideoLoaded(size)
  \/ \E m \in ModeInputs : SetDownloadMode(m)
  \/ handleDownload
  \/ Teardown

SpecUrls == Init /\ [][NextUrls]_vars

NextExport ==
  \/ handleFileChange
  \/ \E size \in SourceSizes : handleVideoLoaded(size)
  \/ VideoPlay
  \/ VideoPause
  \/ VideoEnded
  \/ Teardown
  \/ \E f \in VideoFormats : SetVideoFormat(f)
  \/ \E fault \in {"none", "captureStream", "recorder", "seek"} :
       handleVideoExport(fault)
  \/ \E outcome \in {"ok", "reject", "startThrows"} :
       ExportPlaySettled(outcome)
  \/ \E outcome \in {"ok", "stopThrows"} : ExportEndedSeen(outcome)
  \/ \E outcome \in {"ok", "assembleThrows", "downloadThrows"} :
       ExportRecorderStopped(outcome)

SpecExport == Init /\ [][NextExport]_vars

InitGrid ==
  \E tw \in MinColumns..MaxColumns :
    \E g \in {<<MinCell, MinBorder>>, <<MaxCell, MaxBorder>>} :
      Mounted(tw, g[1], g[2])

\* one clip is selected and loaded
NextGrid ==
  \/ videoUrl = 0 /\ handleFileChange
  \/ \E size \in RowSources : handleVideoLoaded(size)
  \/ \E m \in ModeInputs : SetDownloadMode(m)
  \/ handleDownload

SpecGrid == InitGrid /\ [][NextGrid]_vars

\* one clip is loaded, played and exported as a still while the sliders move
NextCells ==
  \/ \E v \in CellColumns : SetTargetWidth(v)
  \/ \E v \in CellInputs : SetCellSize(v)
  \/ \E v \in BorderInputs : SetBorderSize(v)
  \/ videoUrl = 0 /\ handleFileChange
  \/ \E size \in CellSources : handleVideoLoaded(size)
  \/ VideoPlay
  \/ VideoPause
  \/ Frame
  \/ \E m \in {"svg", "json"} : SetDownloadMode(m)
  \/ handleDownload

\* Exports of one clip in which the recorder stops and the file is
\* assembled without an exception.  A settled promise's continuation and
\* the recorder's 'stop' event are run by the event loop, so the three
\* continuations are weakly fair; the clip's events are not.
NextExportLive ==
  \/ videoUrl = 0 /\ handleFileChange
  \/ \E size \in SourceSizes : handleVideoLoaded(size)
  \/ VideoPlay
  \/ VideoPause
  \/ VideoEnded
  \/ Teardown
  \/ \E f \in VideoFormats : SetVideoFormat(f)
  \/ \E fault \in {"none", "captureStream", "recorder", "seek"} :
       Len(handles) < MaxHandles /\ handleVideoExport(fault)
  \/ \E outcome \in {"ok", "reject", "startThrows"} :
       ExportPlaySettled(outcome)
  \/ ExportEndedSeen("ok")
  \/ ExportRecorderStopped("ok")

SpecExportLive ==
  /\ Init /\ [][NextExportLive]_vars
  /\ WF_vars(\E outcome \in {"ok", "reject", "startThrows"} :
               ExportPlaySettled(outcome))
  /\ WF_vars(ExportEndedSeen("ok"))
  /\ WF_vars(ExportRecorderStopped("ok"))

\* the sliders are moved anywhere, clips are selected and loaded
NextSliders ==
  \/ \E v \in SliderColumns : SetTargetWidth(v)
  \/ \E v \in SliderCells : SetCellSize(v)
  \/ \E v \in SliderBorders : SetBorderSize(v)
  \/ videoUrl = 0 /\ handleFileChange
  \/ \E size \in SourceSizes : handleVideoLoaded(size)

SpecSliders == Init /\ [][NextSliders]_vars

\* one clip is loaded and drawn, for each setting of the cell and border
\* sliders
InitBlocks ==
  \E cs \in {MinCell, InitCell} : \E bs \in {MinBorder, InitBorder, MaxBorder} :
    Mounted(MinColumns, cs, bs)

NextBlocks ==
  \/ \E v \in CellColumns : SetTargetWidth(v)
  \/ videoUrl = 0 /\ handleFileChange
  \/ \E size \in CellSources : handleVideoLoaded(size)

SpecBlocks == InitBlocks /\ [][NextBlocks]_vars

\* the columns slider was moved to its minimum before the clip is selected
InitCells == Mounted(MinColumns, InitCell, InitBorder)

SpecCells == InitCells /\ [][NextCells]_vars

(***************************************************************************)
(* Properties.                                                             *)
(***************************************************************************)
\* the rows a pass samples for the committed state (App.tsx:74)
CurrentRows == Max(1, targetHeight(sourceWidth, sourceHeight, targetWidth))

\* the raster was painted with the committed Grid Configuration
RasterIsCurrent ==
  /\ canvas.present /\ canvas.painted
  /\ canvas.cols = targetWidth
  /\ canvas.rows = CurrentRows
  /\ canvas.cell = cellSize
  /\ canvas.border = borderSize

\* C1: while a clip is ready, a change of columns, cellSize or borderSize to
\* a different value makes exactly one sample+render pass, whether the clip
\* plays or not, and a pass that paints does so with the new values.
C1_ConfigChangeOnePass ==
  (lastOp = "config" /\ isReady) =>
    /\ lastPasses = 1
    /\ lastPainted => RasterIsCurrent

\* C1 witness: a configuration change while Playing has made its pass.
C1_Witness ==
  /\ lastOp = "config" /\ isReady /\ playing /\ rafQueue # {}
  /\ lastPasses = 1 /\ lastPainted

\* C2: after 'pause' or 'ended' no animation-frame callback is pending and
\* the captured id is cleared; while none is pending only a 'play' event
\* schedules one, and only a configuration change or newly loaded metadata
\* makes a pass.
C2_PauseHaltsLoop ==
  /\ [](lastOp \in {"pause", "ended"} => (rafQueue = {} /\ animationRef = 0))
  /\ [][(rafQueue = {} /\ lastOp' # "play") => rafQueue' = {}]_vars
  /\ [][(rafQueue = {} /\ lastOp' \notin {"config", "loaded"})
          => lastPasses' = 0]_vars

\* C2 witness: the clip was paused after the configuration was changed and
\* the raster painted.
C2_Witness ==
  /\ lastOp = "pause" /\ isReady /\ cellSize # InitCell
  /\ canvas.present /\ canvas.painted /\ rafQueue = {}

\* C3 (as claimed): every pass of the continuous loop that paints the
\* raster paints it with the committed Grid Configuration.
C3_LoopDrawsCurrentConfig ==
  (lastOp = "frame" /\ lastPainted) => RasterIsCurrent

\* C4 (as claimed): no object URL is revoked more than once, and after
\* teardown every object URL has been revoked.
C4_HandlesReleasedOnce ==
  /\ \A h \in 1..Len(handles) : handles[h] <= 1
  /\ ~mounted => \A h \in 1..Len(handles) : handles[h] = 1

\* C5 (as claimed): when no call of handleVideoExport is running any more,
\* the capture stream the last one opened has its tracks stopped.
C5_TracksStoppedAtEnd == exPc = "idle" => stream # "live"

\* C6 (as claimed): every export request with an unsupported codec sets the
\* unsupported-format error, leaves the in-flight flag false and does
\* nothing to the stream, the recorder and the clip.
C6_UnsupportedAlwaysReported ==
  [][(lastOp' = "export" /\ ~supportedVideoMimes[videoFormat]) =>
       /\ exportError' = "unsupported"
       /\ ~isExporting'
       /\ UNCHANGED <<stream, recorder, endedListener, exLog, exPc, playing,
                      rafQueue>>]_vars

\* C6 (amended): an export request with an unsupported codec, made while
\* the clip is ready and no export is in flight, sets the unsupported-format
\* error, leaves the in-flight flag false and does nothing to the stream,
\* the recorder and the clip; made at another time it changes nothing.
C6_UnsupportedReported ==
  /\ [][(lastOp' = "export" /\ ~supportedVideoMimes[videoFormat]
          /\ isReady /\ ~isExporting) =>
          /\ exportError' = "unsupported"
          /\ ~isExporting'
          /\ UNCHANGED <<stream, recorder, endedListener, exLog, exPc,
                         playing, rafQueue>>]_vars
  /\ [][(lastOp' = "export" /\ ~supportedVideoMimes[videoFormat]
          /\ (~isReady \/ isExporting)) =>
          UNCHANGED <<exportVars, playing, rafQueue>>]_vars

\* C6 witness: a request for a ready clip was refused for its codec.
C6_Witness ==
  /\ lastOp = "export" /\ isReady /\ ~supportedVideoMimes[videoFormat]
  /\ exportError = "unsupported" /\ ~isExporting /\ stream = "none"

\* C7 (as claimed): after teardown, and after the source clip is replaced
\* by a new file selection, no animation-frame callback remains scheduled.
C7_LoopCancelledOnTeardown ==
  (~mounted \/ lastOp = "file") => rafQueue = {}

\* step a occurs in the export's log before every occurrence of step b
Before(a, b) ==
  \A j \in 1..Len(exLog) :
    exLog[j] = b => \E i \in 1..(j - 1) : exLog[i] = a

\* C8: in an export the clip is rewound before playback starts, recording
\* starts only after playback has started, the recorder is stopped only
\* after the clip's 'ended' signal, and the file is assembled and downloaded
\* only after the recorder was stopped; no step happens twice.
C8_ExportOrder ==
  /\ Before("rewind", "play")
  /\ Before("play", "record")
  /\ Before("record", "stop")
  /\ Before("ended", "stop")
  /\ Before("stop", "assemble")
  /\ Before("assemble", "download")
  /\ \A i, j \in 1..Len(exLog) : exLog[i] = exLog[j] => i = j
  /\ recorder = "recording" => \E i \in 1..Len(exLog) : exLog[i] = "play"
  /\ recorder = "stopped" => endedSeen
  /\ lastFile.kind \in VideoFormats =>
       (recorder = "stopped" /\ exLog[Len(exLog)] = "download")

\* C8 witness: an export ran to its download.
C8_Witness ==
  /\ lastFile.kind \in VideoFormats
  /\ exLog = <<"rewind", "play", "record", "ended", "stop", "assemble",
               "download">>

\* the size the claim gives for n cells
ClaimedSize(n, cs, bs) == n * cs + (n + 1) * bs

\* C9: a painted raster is columns*cellSize+(columns+1)*borderSize wide and
\* rows*cellSize+(rows+1)*borderSize high for the grid and the sizes it was
\* painted with; a pass made on loading paints the committed configuration
\* and stores a Pixel Buffer of that grid; the vector export's document has
\* the same formula's size for the Pixel Buffer's grid.
C9_OutputDimensions ==
  /\ (canvas.present /\ canvas.painted) =>
       /\ canvas.width = ClaimedSize(canvas.cols, canvas.cell, canvas.border)
       /\ canvas.height = ClaimedSize(canvas.rows, canvas.cell, canvas.border)
  /\ lastPainted =>
       /\ RasterIsCurrent
       /\ pixelData.present
       /\ pixelData.width = targetWidth /\ pixelData.height = CurrentRows
  /\ lastFile.kind = "svg" =>
       /\ lastFile.width = ClaimedSize(pixelData.width, cellSize, borderSize)
       /\ lastFile.height = ClaimedSize(pixelData.height, cellSize, borderSize)

\* C9 witness: a vector export of a raster painted at the widest grid.
C9_Witness ==
  /\ lastFile.kind = "svg" /\ targetWidth = MaxColumns
  /\ canvas.present /\ canvas.painted /\ canvas.cols = MaxColumns

\* C10 (as claimed): the rows of the sampled Pixel Buffer are
\* max(1, round(columns*h/w)), rounding halves up.
C10_RowsMatchFormula ==
  (pixelData.present /\ sourceWidth > 0) =>
    pixelData.height =
      Max(1, (2 * targetWidth * sourceHeight + sourceWidth)
               \div (2 * sourceWidth))

\* the cells (x, y) of a grid of cols by rows
Cells(cols, rows) == (0..(cols - 1)) \X (0..(rows - 1))

\* the vector document written last and the raster on screen show the same
\* picture
SvgAgreesWithRaster ==
  /\ canvas.present /\ canvas.painted
  /\ lastFile.width = canvas.width /\ lastFile.height = canvas.height
  /\ lastFile.cols = canvas.cols /\ lastFile.rows = canvas.rows
  /\ \A c \in Cells(lastFile.cols, lastFile.rows) :
       SvgRect(lastFile, c[1], c[2]) = RasterRect(canvas, c[1], c[2])

\* C11 (as claimed, for behaviours in which every drawing surface was
\* available): whenever a vector export is written, the document has the
\* raster's dimensions and each rectangle has the position, size and RGBA
\* fill of the cell drawn in the raster.
C11_VectorMatchesRaster ==
  (lastFile.kind = "svg" /\ faults = 0) => SvgAgreesWithRaster

\* entry (y, x, c) of a flat array reshaped to (rows, columns, 4) in
\* row-major order, the array being indexed from 1
Reshaped(flat, columns, y, x, c) == flat[(y * columns + x) * 4 + c + 1]

\* C12: the colors array of a structured dump has gridWidth*gridHeight*4
\* integers, 576 for a grid of 16 by 9; the grid in the dump has the
\* dimensions of the Pixel Buffer; and entry (y, x, c) of the reshaped array
\* is channel c of the buffer's pixel (x, y).
C12_DumpRoundTrip ==
  lastFile.kind = "json" =>
    LET colors == PayloadColors(lastFile)
    IN /\ pixelData.present
       /\ lastFile.gridWidth = pixelData.width
       /\ lastFile.gridHeight = pixelData.height
       /\ Len(colors) = lastFile.gridWidth * lastFile.gridHeight * 4
       /\ (lastFile.gridWidth = 16 /\ lastFile.gridHeight = 9)
            => Len(colors) = 576
       /\ \A cell \in Cells(pixelData.width, pixelData.height) :
            \A c \in 0..3 :
              Reshaped(colors, pixelData.width, cell[2], cell[1], c)
                = Sample(pixelData.frame, cell[1], cell[2], c)

\* C12 witness: a structured dump of a 16 by 9 grid sampled from the second
\* frame while the clip plays.
C12_Witness ==
  /\ lastFile.kind = "json" /\ playing
  /\ lastFile.gridWidth = 16 /\ lastFile.gridHeight = 9
  /\ pixelData.present /\ pixelData.frame = 2

\* the offset the claim gives for cell index i
ClaimedOffset(i, cs, bs) == bs + i * (cs + bs)

\* the pixel columns that cell column i of a raster covers, and the pixel
\* rows that cell row j covers
BlockColumns(cv, i) ==
  LET r == RasterRect(cv, i, 0) IN r.x..(r.x + r.width - 1)
BlockRows(cv, j) ==
  LET r == RasterRect(cv, 0, j) IN r.y..(r.y + r.height - 1)

\* the raster that a pass paints for a grid of 2 by 2 with cellSize 10 and
\* borderSize 1
Raster2x2 ==
  drawPixelFrame([ready |-> TRUE, tw |-> 2, th |-> 2, cell |-> 10,
                  border |-> 1],
                 TRUE, FreshCanvas, NoPixels, 1, TRUE, TRUE).canvas

\* C13: in a painted raster every cell (x, y) is a block of cellSize by
\* cellSize at (border + x*(cellSize+border), border + y*(cellSize+border));
\* the blocks lie inside the raster; blocks of different columns share no
\* pixel column and blocks of different rows no pixel row, so no two blocks
\* overlap; the white background covers the raster, and the pixel columns
\* and rows that no block covers are the border lines.  For 2 by 2 cells of
\* size 10 with border 1 the raster is 23 by 23 and the pixels that show
\* the white background are those with x or y in {0, 11, 22}.
C13_BlockLayout ==
  /\ (canvas.present /\ canvas.painted) =>
       /\ \A c \in Cells(canvas.cols, canvas.rows) :
            LET r == RasterRect(canvas, c[1], c[2])
            IN /\ r.x = ClaimedOffset(c[1], canvas.cell, canvas.border)
               /\ r.y = ClaimedOffset(c[2], canvas.cell, canvas.border)
               /\ r.width = canvas.cell /\ r.height = canvas.cell
               /\ r.x >= 0 /\ r.x + r.width <= canvas.width
               /\ r.y >= 0 /\ r.y + r.height <= canvas.height
       /\ \A i, j \in 0..(canvas.cols - 1) :
            i # j => BlockColumns(canvas, i) \cap BlockColumns(canvas, j) = {}
       /\ \A i, j \in 0..(canvas.rows - 1) :
            i # j => BlockRows(canvas, i) \cap BlockRows(canvas, j) = {}
       /\ BackgroundRect(canvas) =
            [x |-> 0, y |-> 0, width |-> canvas.width,
             height |-> canvas.height, fill |-> "#ffffff"]
       /\ \A px \in 0..(canvas.width - 1) :
            (\A i \in 0..(canvas.cols - 1) : px \notin BlockColumns(canvas, i))
              <=> px % (canvas.cell + canvas.border) < canvas.border
       /\ \A py \in 0..(canvas.height - 1) :
            (\A j \in 0..(canvas.rows - 1) : py \notin BlockRows(canvas, j))
              <=> py % (canvas.cell + canvas.border) < canvas.border
  /\ Raster2x2.width = 23 /\ Raster2x2.height = 23
  /\ \A px, py \in 0..22 :
       RasterPixel(Raster2x2, px, py) =
         IF px \in {0, 11, 22} \/ py \in {0, 11, 22} THEN "#ffffff"
         ELSE "cell"

\* C13 witness: a raster of 17 by 10 cells of size 10 with the widest
\* border was painted.
C13_Witness ==
  /\ canvas.present /\ canvas.painted
  /\ canvas.cols = 17 /\ canvas.rows = 10
  /\ canvas.cell = InitCell /\ canvas.border = MaxBorder
  /\ canvas.width = 17 * 10 + 18 * 6

\* C14 (as claimed): once no call of handleVideoExport is running any
\* more, the in-flight flag is false again, so that a new export can start.
C14_FailedExportRecovers == exPc = "idle" => ~isExporting

\* C15: when metadata resolves for a selected clip the clip was not ready
\* yet (so the handler's own call of drawPixelFrame does nothing), the
\* clip is marked ready afterwards and the commit makes exactly one pass;
\* when that pass paints, a Pixel Buffer of columns by rows exists and the
\* raster is drawn from it with the committed configuration.
C15_LoadedOnePass ==
  /\ metaPending => ~isReady
  /\ lastOp = "loaded" =>
       /\ isReady /\ ~metaPending
       /\ lastPasses = 1
       /\ lastPainted =>
            /\ RasterIsCurrent
            /\ pixelData.present
            /\ pixelData.width = targetWidth
            /\ pixelData.height = CurrentRows
            /\ canvas.frame = pixelData.frame

\* C15 witness: the metadata of a replacement clip resolved and the pass
\* painted its raster.
C15_Witness ==
  /\ lastOp = "loaded" /\ lastPasses = 1 /\ lastPainted
  /\ videoUrl = 2 /\ sourceWidth = 640 /\ sourceHeight = 448
  /\ pixelData.present /\ pixelData.height = CurrentRows

\* C16 (as claimed): a pass of a configuration change or of the loop that
\* does not paint the raster leaves the Pixel Buffer, the raster with its
\* dimensions, and the error message as they were.
C16_SkippedPassChangesNothing ==
  [][(lastOp' \in {"config", "frame"} /\ ~lastPainted')
       => UNCHANGED <<pixelData, canvas, exportError>>]_vars

\* the rows value derived from the source (App.tsx:45-48)
DerivedRows == targetHeight(sourceWidth, sourceHeight, targetWidth)

\* C17 (as claimed): columns, rows, cellSize and borderSize are positive,
\* with columns in [16,256], cellSize in [4,24] and borderSize in [0,6].
C17_AllPositive ==
  /\ targetWidth > 0 /\ DerivedRows > 0 /\ cellSize > 0 /\ borderSize > 0
  /\ targetWidth \in MinColumns..MaxColumns
  /\ cellSize \in MinCell..MaxCell
  /\ borderSize \in MinBorder..MaxBorder

\* C17 (amended): columns is in [16,256], cellSize in [4,24] and borderSize
\* in [0,6]; the derived rows value is 0 while the source has no dimensions
\* and at least 1 otherwise; every sampled Pixel Buffer and every painted
\* raster has at least 16 columns and at least 1 row.
C17_ValuesInRange ==
  /\ targetWidth \in MinColumns..MaxColumns
  /\ cellSize \in MinCell..MaxCell
  /\ borderSize \in MinBorder..MaxBorder
  /\ DerivedRows = 0 <=> (sourceWidth = 0 \/ sourceHeight = 0)
  /\ DerivedRows >= 0
  /\ pixelData.present =>
       (pixelData.width \in MinColumns..MaxColumns /\ pixelData.height >= 1)
  /\ (canvas.present /\ canvas.painted) =>
       /\ canvas.cols \in MinColumns..MaxColumns /\ canvas.rows >= 1
       /\ canvas.cell \in MinCell..MaxCell
       /\ canvas.border \in MinBorder..MaxBorder

\* C17 witness: the sliders were moved to the ends of their ranges and the
\* raster was painted with no border.
C17_Witness ==
  /\ lastOp = "config" /\ lastPainted
  /\ targetWidth = MaxColumns /\ cellSize = MaxCell /\ borderSize = MinBorder
  /\ canvas.border = 0 /\ DerivedRows > 0

\* C18: at most one animation-frame callback is pending, and the captured
\* id is set exactly when one is pending and is the id of that callback.
C18_OneLoop ==
  /\ Cardinality(rafQueue) <= 1
  /\ \A cb \in rafQueue : cb.id = animationRef
  /\ animationRef # 0 => \E cb \in rafQueue : cb.id = animationRef

\* C18 witness: a 'play' event arrived while the loop started for the
\* earlier clip was still running, and started no second loop.
C18_Witness ==
  /\ lastOp = "play" /\ videoUrl = 2 /\ isReady
  /\ Cardinality(rafQueue) = 1
  /\ \E cb \in rafQueue : cb.id = animationRef /\ cb.cfg # playHandler.cfg

\* C19: an export request made while an export is in flight or while the
\* clip is not ready changes nothing; a request starts an export only when
\* none is running; the in-flight flag is true while an export runs, and
\* while it is true the stream of the export has not been cleaned up.
C19_OneExport ==
  /\ [][(lastOp' = "export" /\ (isExporting \/ ~isReady))
          => UNCHANGED <<exportVars, playing, rafQueue>>]_vars
  /\ [][(lastOp' = "export" /\ exportVars' # exportVars)
          => (exPc = "idle" /\ ~isExporting /\ isReady)]_vars
  /\ [][(lastOp' = "export" /\ exPc' # "idle" /\ exPc = "idle")
          => isExporting']_vars
  /\ [](exPc # "idle" => isExporting)
  /\ [](isExporting => stream # "stopped")
  /\ [][(isExporting /\ ~isExporting') => stream' = "stopped"]_vars

\* C19 witness: an export was requested while another one was recording.
C19_Witness ==
  /\ lastOp = "export" /\ isExporting /\ isReady
  /\ exPc = "awaitEnded" /\ recorder = "recording" /\ stream = "live"

\* the export has run to its end: recorder stopped, file downloaded,
\* in-flight flag cleared
ExportCompleted ==
  /\ exPc = "idle" /\ ~isExporting
  /\ recorder = "stopped" /\ stream = "stopped"
  /\ Len(exLog) > 0 /\ exLog[Len(exLog)] = "download"

\* C20: once an export has rewound the clip, the 'ended' listener is
\* registered or has already fired for as long as the export waits for the
\* end of the clip; when the clip has ended after recording started, the
\* export eventually stops the recorder, downloads the file and clears the
\* in-flight flag; while the clip has not ended, the export that waits for
\* it stays in flight.
C20_EndedNotMissed ==
  /\ [](exPc \in {"awaitPlay", "awaitEnded"} => (endedListener \/ endedSeen))
  /\ (exPc = "awaitEnded" /\ endedSeen) ~> ExportCompleted
  /\ [][(exPc = "awaitEnded" /\ ~endedSeen /\ lastOp' # "ended")
          => (exPc' = "awaitEnded" /\ isExporting' /\ ~endedSeen')]_vars

\* C20 witness: the clip ended while the export was recording, and the
\* export ran to its download.
C20_Witness ==
  /\ lastOp = "exportStop" /\ ExportCompleted
  /\ endedSeen /\ ~endedListener /\ lastFile.kind = "webm"

====
